---- MODULE Spec2Model ----
(***************************************************************************)
(* Model of bdf::Serializer (src/src/Serializer.h): a typed binary         *)
(* encode/decode layer over an external byte stream, with a byte order     *)
(* fixed per serializer instance.                                          *)
(*                                                                         *)
(* A scalar is modelled by its memory image: the sequence of bytes that    *)
(* reinterpret_cast<char *>(&v) sees, v[1] being the byte at the lowest    *)
(* address.  The numeric value of an image depends on the byte order of    *)
(* the host, as it does in the program.                                    *)
(***************************************************************************)
EXTENDS Integers, Sequences, FiniteSets, TLC

(***************************************************************************)
(* Program constants.                                                      *)
(***************************************************************************)
BDF_LITTLE_ENDIAN == 0
BDF_BIG_ENDIAN == 1
\* sizeof(size_t) on an LP64 platform
SizeW == 8

(***************************************************************************)
(* Bounds of the model.                                                    *)
(***************************************************************************)
\* scalars written into one stream of a scalar session
MaxScalars == 1
\* capacity of the stream's buffer in bytes: a write beyond it fails
Cap == 20
\* largest element count the allocator grants to resize(); a larger request
\* throws std::bad_alloc / std::length_error
MaxAlloc == 4

\* every length of 2^16 or more is represented by this one number: all of
\* them exceed Cap and MaxAlloc, so the program treats them alike
HUGE == 256 * 256

VARIABLES
    host,     \* BDF_SYSTEM_ENDIAN of the build
    ndebug,   \* TRUE iff the build defines NDEBUG (assert compiled out)
    mode,     \* how the Stream reports a failure: "throw" or "flag"
    wtag,     \* Endian of the serializer instance that writes
    rtag,     \* Endian of the serializer instance that reads
    ss,       \* the Stream: [buf, pos, fail]
    sent,     \* the operator<< calls made so far, in order
    nread,    \* number of operator>> calls made so far that mirror sent
    sync,     \* TRUE iff every operator>> so far mirrors the matching <<
    last,     \* the most recent operation and its result
    alive     \* FALSE once assert() has aborted the process

vars == <<host, ndebug, mode, wtag, rtag, ss, sent, nread, sync, last, alive>>

Endians == {BDF_LITTLE_ENDIAN, BDF_BIG_ENDIAN}

(***************************************************************************)
(* Types the templates are instantiated with, and their values.            *)
(***************************************************************************)
IntT(w) == [k |-> "int", w |-> w]
StrT == [k |-> "str"]
PairT(a, b) == [k |-> "pair", a |-> a, b |-> b]
VecT(e) == [k |-> "vec", e |-> e]
MapT(a, b) == [k |-> "map", a |-> a, b |-> b]

Reverse(s) == [i \in 1..Len(s) |-> s[Len(s) + 1 - i]]

\* the w base-256 digits of n, most significant first
RECURSIVE Digits(_, _)
Digits(n, w) == IF w = 0 THEN << >> ELSE Append(Digits(n \div 256, w - 1), n % 256)

\* memory image on this host of the digits d (most significant first)
Image(d) == IF host = BDF_LITTLE_ENDIAN THEN Reverse(d) ELSE d

\* memory image of the size_t value n
SizeT(n) == Image(Digits(n, SizeW))

\* numeric value of the scalar with memory image m, as the host reads it
Num(m) ==
    LET d == Image(m)
        L == Len(d)
    IN  IF \E i \in 1..(L - 2) : d[i] # 0 THEN HUGE
        ELSE IF L = 1 THEN d[1]
        ELSE d[L - 1] * 256 + d[L]

\* exact numeric value of a memory image of at most 4 bytes below 2^31
RECURSIVE Horner(_, _)
Horner(d, i) == IF i = 0 THEN 0 ELSE Horner(d, i - 1) * 256 + d[i]
Num32(m) == Horner(Image(m), Len(m))

(***************************************************************************)
(* swapBytes<nBytes>, lines 27-30, and Swapper<Enabled>, lines 32-34.      *)
(***************************************************************************)
\* std::swap(src[i], src[j]), with the source's 0-based indices
swap(src, i, j) ==
    [x \in 1..Len(src) |->
        IF x = i + 1 THEN src[j + 1] ELSE IF x = j + 1 THEN src[i + 1] ELSE src[x]]

swapBytes1(src) == src
swapBytes2(src) == swap(src, 0, 1)
\* a swapBytes<4> that forgets the inner pair
swapBytes4Outer(src) == swap(src, 0, 3)
swapBytes4(src) == swap(swap(src, 0, 3), 1, 2)
\* a swapBytes<8> whose last pair is off by one
swapBytes8Off(src) == swap(swap(swap(swap(src, 0, 7), 1, 6), 2, 5), 3, 5)
swapBytes8(src) == swap(swap(swap(swap(src, 0, 7), 1, 6), 2, 5), 3, 4)

\* swapBytes(T & src): dispatch on sizeof(T), line 25
swapBytes(v) ==
    CASE Len(v) = 1 -> swapBytes1(v)
      [] Len(v) = 2 -> swapBytes2(v)
      [] Len(v) = 4 -> swapBytes4(v)
      [] Len(v) = 8 -> swapBytes8(v)

Swapper(enabled, v) == IF enabled THEN swapBytes(v) ELSE v

(***************************************************************************)
(* The Stream (template parameter of Serializer).  During one operation    *)
(* the state carries, besides the stream's own buf/pos/fail, the exception *)
(* in flight (exc) and whether a stream call has failed (sfail).           *)
(***************************************************************************)
Enter(s) == [buf |-> s.buf, pos |-> s.pos, fail |-> s.fail, exc |-> "none", sfail |-> FALSE]
Leave(st) == [buf |-> st.buf, pos |-> st.pos, fail |-> st.fail]

\* a failing stream call: the stream enters its failed state and either throws
\* or only records the failure, which the caller would have to ask for
Failed(st) ==
    [st EXCEPT !.fail = TRUE, !.sfail = TRUE,
               !.exc = IF mode = "throw" THEN "stream" ELSE @]

\* ss.write(str, n)
StreamWrite(st, bytes) ==
    IF st.fail \/ Len(st.buf) + Len(bytes) > Cap THEN Failed(st)
    ELSE [st EXCEPT !.buf = @ \o bytes]

\* ss.read(str, n): fills dest[1..n], or as many bytes as are left and fails
StreamRead(st, dest, n) ==
    IF st.fail THEN [st |-> Failed(st), v |-> dest]
    ELSE LET avail == Len(st.buf) - st.pos
             got == IF n <= avail THEN n ELSE avail
             v == [i \in 1..Len(dest) |-> IF i <= got THEN st.buf[st.pos + i] ELSE dest[i]]
         IN  IF n <= avail THEN [st |-> [st EXCEPT !.pos = @ + n], v |-> v]
             ELSE [st |-> Failed([st EXCEPT !.pos = Len(st.buf)]), v |-> v]

(***************************************************************************)
(* Serializer: the write side.                                             *)
(***************************************************************************)
\* Serializer::write(const char *, size_t), line 48
write(st, bytes) == IF st.exc # "none" THEN st ELSE StreamWrite(st, bytes)

\* Serializer::operator<<(T v), lines 50-55
PutScalar(st, tag, v) == write(st, Swapper(tag # host, v))

RECURSIVE Put(_, _, _, _), PutEach(_, _, _, _, _)

\* a string write that emits the length in host order whatever the tag
PutStringHostLen(st, tag, str) == write(write(st, SizeT(Len(str))), str)

\* operator<<(Serializer &, const std::string &), lines 105-110
PutString(st, tag, str) == write(PutScalar(st, tag, SizeT(Len(str))), str)

\* operator<<(Serializer &, const std::pair<T1,T2> &), lines 121-122
PutPair(t, st, tag, p) == Put(t.b, Put(t.a, st, tag, p[1]), tag, p[2])

\* operator<<(Serializer &, const std::vector<T> &), lines 127-128
PutVector(t, st, tag, vv) == PutEach(t.e, PutScalar(st, tag, SizeT(Len(vv))), tag, vv, 1)

\* operator<<(Serializer &, const std::map<T1,T2> &), lines 141-142; a map is
\* the sequence of its pairs in iteration (key) order
PutMap(t, st, tag, mm) ==
    PutEach(PairT(t.a, t.b), PutScalar(st, tag, SizeT(Len(mm))), tag, mm, 1)

\* for(auto it = c.begin(); it != c.end(); ++it) s << *it
PutEach(e, st, tag, c, i) ==
    IF i > Len(c) THEN st ELSE PutEach(e, Put(e, st, tag, c[i]), tag, c, i + 1)

\* overload resolution of s << v
Put(t, st, tag, v) ==
    CASE t.k = "int" -> PutScalar(st, tag, v)
      [] t.k = "str" -> PutString(st, tag, v)
      [] t.k = "pair" -> PutPair(t, st, tag, v)
      [] t.k = "vec" -> PutVector(t, st, tag, v)
      [] t.k = "map" -> PutMap(t, st, tag, v)

(***************************************************************************)
(* Serializer: the read side.  A read returns the stream state and the     *)
(* destination's new value; dest is what the destination held before.      *)
(***************************************************************************)
\* a value-initialised object of type t
RECURSIVE Zero(_)
Zero(t) ==
    CASE t.k = "int" -> [i \in 1..t.w |-> 0]
      [] t.k = "pair" -> <<Zero(t.a), Zero(t.b)>>
      [] OTHER -> << >>

\* an uninitialised size_t: every byte holds the indeterminate value g
Uninit(g) == [i \in 1..SizeW |-> g]

\* std::string::resize(n) / std::vector::resize(n): keeps the first n elements
\* and appends value-initialised ones
Resize(c, n, fill) == [i \in 1..n |-> IF i <= Len(c) THEN c[i] ELSE fill]

\* Serializer::read(char *, size_t), lines 71-74
read(st, dest, n) ==
    IF st.exc # "none" THEN [st |-> st, v |-> dest]
    ELSE IF n = 0 /\ ~ndebug THEN [st |-> [st EXCEPT !.exc = "abort"], v |-> dest]
    ELSE StreamRead(st, dest, n)

\* a scalar read that never swaps
GetScalarNoSwap(st, tag, dest) == read(st, dest, Len(dest))

\* Serializer::operator>>(T & v), lines 76-81
GetScalar(st, tag, dest) ==
    LET r == read(st, dest, Len(dest))
    IN  IF r.st.exc # "none" THEN r
        ELSE [st |-> r.st, v |-> Swapper(tag # host, r.v)]

\* std::less on integral keys of at most 2 bytes
Less(a, b) == Num(a) < Num(b)

\* an insert that keeps the value of a key already present
MapInsert(mm, key, val) ==
    IF \E i \in 1..Len(mm) : ~Less(mm[i][1], key) /\ ~Less(key, mm[i][1]) THEN mm
    ELSE SelectSeq(mm, LAMBDA p : Less(p[1], key)) \o << <<key, val>> >>
             \o SelectSeq(mm, LAMBDA p : Less(key, p[1]))

\* mm[key] = val on a map kept as the sequence of its pairs in key order
MapAssign(mm, key, val) ==
    LET lo == SelectSeq(mm, LAMBDA p : Less(p[1], key))
        hi == SelectSeq(mm, LAMBDA p : Less(key, p[1]))
    IN  lo \o << <<key, val>> >> \o hi

RECURSIVE Get(_, _, _, _, _), GetEach(_, _, _, _, _, _), GetEntries(_, _, _, _, _)

\* operator>>(Serializer &, std::string &), lines 111-118
GetString(st, tag, str, g) ==
    LET r == GetScalar(st, tag, Uninit(g))
        n == Num(r.v)
    IN  IF r.st.exc # "none" THEN [st |-> r.st, v |-> str]
        ELSE IF n > MaxAlloc THEN [st |-> [r.st EXCEPT !.exc = "alloc"], v |-> str]
        ELSE read(r.st, Resize(str, n, 0), n)

\* operator>>(Serializer &, std::pair<T1,T2> &), lines 123-124
GetPair(t, st, tag, p, g) ==
    LET r1 == Get(t.a, st, tag, p[1], g)
        r2 == Get(t.b, r1.st, tag, p[2], g)
    IN  [st |-> r2.st, v |-> <<r1.v, r2.v>>]

\* operator>>(Serializer &, std::vector<T> &), lines 129-138
GetVector(t, st, tag, vv, g) ==
    LET r == GetScalar(st, tag, Uninit(g))
        n == Num(r.v)
    IN  IF r.st.exc # "none" THEN [st |-> r.st, v |-> vv]
        ELSE IF n > MaxAlloc THEN [st |-> [r.st EXCEPT !.exc = "alloc"], v |-> << >>]
        ELSE GetEach(t.e, r.st, tag, Resize(<< >>, n, Zero(t.e)), 1, g)

\* for(size_t i = 0; i < n; ++i) s >> vv[i]
GetEach(e, st, tag, vv, i, g) ==
    IF i > Len(vv) \/ st.exc # "none" THEN [st |-> st, v |-> vv]
    ELSE LET r == Get(e, st, tag, vv[i], g)
         IN  GetEach(e, r.st, tag, [vv EXCEPT ![i] = r.v], i + 1, g)

\* a map read that does not clear the destination
GetMapNoClear(t, st, tag, mm, g) ==
    LET r == GetScalar(st, tag, Uninit(g))
        n == Num(r.v)
    IN  IF r.st.exc # "none" THEN [st |-> r.st, v |-> mm]
        ELSE GetEntries(t, [st |-> r.st, v |-> mm, p |-> Zero(PairT(t.a, t.b))], tag, n, g)

\* operator>>(Serializer &, std::map<T1,T2> &), lines 143-154
GetMap(t, st, tag, mm, g) ==
    LET r == GetScalar(st, tag, Uninit(g))
        n == Num(r.v)
    IN  IF r.st.exc # "none" THEN [st |-> r.st, v |-> mm]
        ELSE GetEntries(t, [st |-> r.st, v |-> << >>, p |-> Zero(PairT(t.a, t.b))], tag, n, g)

\* { s >> p; mm[p.first] = p.second; } on c = [st, v (the map), p]
Entry(t, c, tag, g) ==
    LET r == Get(PairT(t.a, t.b), c.st, tag, c.p, g)
    IN  [st |-> r.st, p |-> r.v,
         v |-> IF r.st.exc = "none" THEN MapAssign(c.v, r.v[1], r.v[2]) ELSE c.v]

\* for(size_t i = 0; i < n; ++i) { s >> p; mm[p.first] = p.second; }
\* Once the stream has failed without throwing, an iteration reads nothing and
\* only swaps p again, so two iterations may restore c: the iterations left
\* then count modulo 2.
GetEntries(t, c, tag, left, g) ==
    IF left = 0 \/ c.st.exc # "none" THEN [st |-> c.st, v |-> c.v]
    ELSE LET c1 == Entry(t, c, tag, g)
         IN  IF left >= 2 /\ Entry(t, c1, tag, g) = c
                 THEN IF left % 2 = 0 THEN [st |-> c.st, v |-> c.v]
                      ELSE [st |-> c1.st, v |-> c1.v]
             ELSE GetEntries(t, c1, tag, left - 1, g)

\* overload resolution of s >> v
Get(t, st, tag, dest, g) ==
    IF st.exc # "none" THEN [st |-> st, v |-> dest]
    ELSE CASE t.k = "int" -> GetScalar(st, tag, dest)
           [] t.k = "str" -> GetString(st, tag, dest, g)
           [] t.k = "pair" -> GetPair(t, st, tag, dest, g)
           [] t.k = "vec" -> GetVector(t, st, tag, dest, g)
           [] t.k = "map" -> GetMap(t, st, tag, dest, g)

(***************************************************************************)
(* The values the operations are applied to.                               *)
(***************************************************************************)
U8 == IntT(1)
U16 == IntT(2)
U32 == IntT(4)
U64 == IntT(8)
Widths == {1, 2, 4, 8}

Fill(w, b) == [i \in 1..w |-> b]

\* digits (most significant first) of the scalars of width w that are used:
\* 0, the unsigned maximum, the signed minimum and maximum, and 0x1234...
ScalarDigits(w) ==
    { Fill(w, 0), Fill(w, 255),
      [i \in 1..w |-> IF i = 1 THEN 128 ELSE 0],
      [i \in 1..w |-> IF i = 1 THEN 127 ELSE 255],
      SubSeq(<<18, 52, 86, 120, 154, 188, 222, 240>>, 1, w) }

ScalarVals(w) == {Image(d) : d \in ScalarDigits(w)}

\* size_t values that a reader may take for a length
SizeVals == {SizeT(1), SizeT(3), Image(SubSeq(<<18, 52, 86, 120, 154, 188, 222, 240>>, 1, SizeW))}

KeyA == Image(<<1>>)
KeyB == Image(<<2>>)
ValX == Image(<<18, 52>>)
ValY == Image(<<0, 7>>)

StringVals == { << >>, <<97>>, <<97, 0, 98>> }
PairTypes == { PairT(U8, StrT) }
PairVals(t) == { <<KeyA, <<97>> >>, <<KeyB, << >> >> }
VectorTypes == { VecT(U16), VecT(PairT(U8, U16)) }
VectorVals(t) ==
    IF t.e.k = "int" THEN { << >>, <<ValX>>, <<ValX, ValY>> }
    ELSE { << <<KeyA, ValX>>, <<KeyA, ValY>> >>, << <<KeyB, ValX>>, <<KeyA, ValY>> >> }
MapTypes == { MapT(U8, U16) }
MapVals(t) == { << >>, << <<KeyB, ValY>> >>, << <<KeyA, ValX>>, <<KeyB, ValY>> >> }

\* what a destination may hold before a read: a value-initialised object or
\* the left-over of an earlier use
RECURSIVE Junk(_)
Junk(t) ==
    CASE t.k = "int" -> Fill(t.w, 170)
      [] t.k = "str" -> <<120, 121>>
      [] t.k = "pair" -> <<Junk(t.a), Junk(t.b)>>
      [] t.k = "vec" -> <<Junk(t.e)>>
      [] t.k = "map" -> << <<Junk(t.a), Junk(t.b)>> >>

\* the memory a read finds: zeroed, or left over from an earlier use
Memory == {"clean", "dirty"}
Dest(t, m) == IF m = "clean" THEN Zero(t) ELSE Junk(t)
\* the indeterminate byte value of an uninitialised object
Garbage(m) == IF m = "clean" THEN 0 ELSE 255

(***************************************************************************)
(* The state machine: values are written into the stream with one          *)
(* serializer, then read back with another: either by reads that mirror    *)
(* the writes in type and order, or by one read of another type.           *)
(***************************************************************************)
NoOp ==
    [op |-> "none", t |-> U8, arg |-> << >>, v |-> << >>, out |-> "ok", sfail |-> FALSE,
     prefail |-> FALSE, from |-> 0, to |-> 0, claimed |-> -1, remain |-> -1,
     lenok |-> FALSE, idx |-> 0, mem |-> "none"]

Start ==
    /\ host \in Endians
    /\ ndebug \in BOOLEAN
    /\ mode \in {"throw", "flag"}
    /\ wtag \in Endians
    /\ ss = [buf |-> << >>, pos |-> 0, fail |-> FALSE]
    /\ sent = << >>
    /\ nread = 0
    /\ sync = TRUE
    /\ last = NoOp
    /\ alive = TRUE

\* a session: the reader is configured with the writer's tag
Init == Start /\ rtag = wtag

\* a scalar session: the reader's tag is any
InitScalar == Start /\ rtag \in Endians

Outcome(st) == IF st.exc = "none" THEN "ok" ELSE st.exc

\* one call s << v with v of type t; sent and last.arg keep the values that
\* went into the stream
\* The writer stops at the first failure and starts a value only while the
\* stream has room for a length field.
DoWrite(t, v) ==
    /\ alive
    /\ last.op # "read"
    /\ ~ss.fail
    /\ Len(ss.buf) + SizeW <= Cap
    /\ LET st == Put(t, Enter(ss), wtag, v)
           ok == st.exc = "none" /\ ~st.sfail
       IN  /\ ss' = Leave(st)
           /\ sent' = IF ok THEN Append(sent, [t |-> t, v |-> v, from |-> Len(ss.buf),
                                               to |-> Len(st.buf)])
                      ELSE sent
           /\ last' = [op |-> "write", t |-> t, arg |-> IF ok THEN v ELSE << >>,
                       v |-> << >>, out |-> Outcome(st),
                       sfail |-> st.sfail, prefail |-> ss.fail,
                       from |-> Len(ss.buf), to |-> Len(st.buf),
                       claimed |-> -1, remain |-> -1, lenok |-> FALSE,
                       idx |-> IF ok THEN Len(sent) + 1 ELSE 0, mem |-> "none"]
    /\ UNCHANGED <<host, ndebug, mode, wtag, rtag, nread, sync, alive>>

\* one call s >> v with v of type t, in memory m
DoRead(t, m) ==
    /\ alive
    /\ sync
    /\ nread = 0 \/ (nread < Len(sent) /\ sent[nread + 1].t = t)
    /\ LET r == Get(t, Enter(ss), rtag, Dest(t, m), Garbage(m))
           hd == GetScalar(Enter(ss), rtag, Uninit(Garbage(m)))
           pre == t.k \in {"str", "vec", "map"}
           mirror == nread < Len(sent) /\ sent[nread + 1].t = t
       IN  /\ ss' = Leave(r.st)
           /\ last' = [op |-> "read", t |-> t, arg |-> << >>, v |-> r.v,
                       out |-> Outcome(r.st),
                       sfail |-> r.st.sfail, prefail |-> ss.fail,
                       from |-> ss.pos, to |-> r.st.pos,
                       claimed |-> IF pre THEN Num(hd.v) ELSE -1,
                       remain |-> IF pre THEN Len(ss.buf) - hd.st.pos ELSE -1,
                       lenok |-> pre /\ ~hd.st.sfail,
                       idx |-> IF mirror THEN nread + 1 ELSE 0, mem |-> m]
           /\ nread' = IF mirror THEN nread + 1 ELSE nread
           /\ sync' = mirror
           /\ alive' = (r.st.exc # "abort")
    /\ UNCHANGED <<host, ndebug, mode, wtag, rtag, sent>>

\* s << v, v a scalar of any width (scalar sessions)
WriteScalar ==
    /\ Len(sent) < MaxScalars
    /\ \E w \in Widths : \E v \in ScalarVals(w) : DoWrite(IntT(w), v)

\* s << n, n a size_t
WriteSize ==
    /\ TRUE
    /\ \E v \in SizeVals : DoWrite(IntT(SizeW), v)

WriteString ==
    /\ TRUE
    /\ \E v \in StringVals : DoWrite(StrT, v)

WritePair ==
    /\ TRUE
    /\ \E t \in PairTypes : \E v \in PairVals(t) : DoWrite(t, v)

WriteVector ==
    /\ TRUE
    /\ \E t \in VectorTypes : \E v \in VectorVals(t) : DoWrite(t, v)

WriteMap ==
    /\ TRUE
    /\ \E t \in MapTypes : \E v \in MapVals(t) : DoWrite(t, v)

ReadScalar ==
    /\ TRUE
    /\ \E w \in Widths, m \in Memory : DoRead(IntT(w), m)

ReadString ==
    /\ TRUE
    /\ \E m \in Memory : DoRead(StrT, m)

ReadPair ==
    /\ TRUE
    /\ \E t \in PairTypes, m \in Memory : DoRead(t, m)

ReadVector ==
    /\ TRUE
    /\ \E t \in VectorTypes, m \in Memory : DoRead(t, m)

ReadMap ==
    /\ TRUE
    /\ \E t \in MapTypes, m \in Memory : DoRead(t, m)

Next ==
    \/ WriteSize
    \/ WriteString
    \/ WritePair
    \/ WriteVector
    \/ WriteMap
    \/ ReadScalar
    \/ ReadString
    \/ ReadPair
    \/ ReadVector
    \/ ReadMap

Spec == Init /\ [][Next]_vars

NextScalar ==
    \/ WriteScalar
    \/ ReadScalar

SpecScalar == InitScalar /\ [][NextScalar]_vars

(***************************************************************************)
(* What the claims speak of.                                               *)
(***************************************************************************)
\* the bytes the last operation wrote to, or read from, the stream
Segment == SubSeq(ss.buf, last.from + 1, last.to)

\* the last operation is a read that mirrors a write, on a stream that had
\* not failed before
MirrorRead == last.op = "read" /\ last.idx > 0 /\ ~last.prefail

\* the last operation is a write that went into the stream
GoodWrite == last.op = "write" /\ last.idx > 0

\* the wire format of section 6: a scalar is its bytes in the order of the
\* tag (big: most significant first), a length is a size_t scalar
LenWire(n, tag) ==
    IF tag = BDF_BIG_ENDIAN THEN Digits(n, SizeW) ELSE Reverse(Digits(n, SizeW))

RECURSIVE WireOf(_, _, _), WireAll(_, _, _, _)
WireOf(t, v, tag) ==
    CASE t.k = "int" -> IF tag = BDF_BIG_ENDIAN THEN Image(v) ELSE Reverse(Image(v))
      [] t.k = "str" -> LenWire(Len(v), tag) \o v
      [] t.k = "pair" -> WireOf(t.a, v[1], tag) \o WireOf(t.b, v[2], tag)
      [] t.k = "vec" -> LenWire(Len(v), tag) \o WireAll(t.e, v, tag, 1)
      [] t.k = "map" -> LenWire(Len(v), tag) \o WireAll(PairT(t.a, t.b), v, tag, 1)
WireAll(e, c, tag, i) ==
    IF i > Len(c) THEN << >> ELSE WireOf(e, c[i], tag) \o WireAll(e, c, tag, i + 1)

\* the value a mapping m (a sequence of pairs) associates with key k
Keys(m) == {m[i][1] : i \in 1..Len(m)}
Entries(m, k) == {i \in 1..Len(m) : m[i][1] = k}
LastOf(m, k) == m[CHOOSE i \in Entries(m, k) : \A j \in Entries(m, k) : j <= i][2]

(***************************************************************************)
(* C1: a scalar of any width written with a tag and read back with the     *)
(* same tag over the same bytes is read without fault and equals the       *)
(* scalar written.                                                         *)
(***************************************************************************)
C1_ScalarRoundTrip ==
    (MirrorRead /\ last.t.k = "int" /\ wtag = rtag) =>
        /\ last.out = "ok"
        /\ ~last.sfail
        /\ last.v = sent[last.idx].v

\* the signed minimum of 8 bytes came back through a swapping serializer
C1_Witness ==
    /\ MirrorRead /\ last.t.k = "int" /\ last.t.w = 8
    /\ wtag = rtag /\ wtag # host
    /\ last.v = Image(<<128, 0, 0, 0, 0, 0, 0, 0>>)
    /\ sent[last.idx].v = last.v

(***************************************************************************)
(* C2: on a little-endian host the big-endian tag puts 0x12345678 on the   *)
(* wire as 12 34 56 78; these bytes read with the big-endian tag give      *)
(* 0x12345678 and read with the little-endian tag give 0x78563412.         *)
(***************************************************************************)
C2_WireByteOrder ==
    /\ (/\ host = BDF_LITTLE_ENDIAN /\ wtag = BDF_BIG_ENDIAN
        /\ GoodWrite /\ last.t = U32 /\ last.arg = <<120, 86, 52, 18>>) =>
            /\ Num32(last.arg) = 305419896
            /\ Segment = <<18, 52, 86, 120>>
    /\ (/\ host = BDF_LITTLE_ENDIAN
        /\ last.op = "read" /\ last.t = U32 /\ last.out = "ok"
        /\ Segment = <<18, 52, 86, 120>>) =>
            Num32(last.v) = IF rtag = BDF_BIG_ENDIAN THEN 305419896 ELSE 2018915346

\* 12 34 56 78, written with the big-endian tag, was read with the little one
C2_Witness ==
    /\ host = BDF_LITTLE_ENDIAN /\ wtag = BDF_BIG_ENDIAN /\ rtag = BDF_LITTLE_ENDIAN
    /\ last.op = "read" /\ last.t = U32 /\ last.out = "ok"
    /\ Len(sent) = 1 /\ sent[1].v = <<120, 86, 52, 18>>
    /\ Segment = <<18, 52, 86, 120>>
    /\ last.v = <<18, 52, 86, 120>>

(***************************************************************************)
(* C3: a std::string, the empty one included, written and read back with   *)
(* the same tag is read without fault and equals the string written.       *)
(***************************************************************************)
C3_StringRoundTrip ==
    (MirrorRead /\ last.t.k = "str") =>
        /\ last.out = "ok"
        /\ last.v = sent[last.idx].v

(***************************************************************************)
(* C4: a vector or a map written and read back with the same tag, into a   *)
(* destination that held anything, has the same number of elements, the    *)
(* same elements in the same order (vector) and the same value for every   *)
(* key (map).                                                              *)
(***************************************************************************)
C4_ContainerRoundTrip ==
    (MirrorRead /\ last.t.k \in {"vec", "map"}) =>
        LET w == sent[last.idx].v
        IN  /\ last.out = "ok"
            /\ Len(last.v) = Len(w)
            /\ last.t.k = "vec" => \A i \in 1..Len(w) : last.v[i] = w[i]
            /\ last.t.k = "map" =>
                   /\ Keys(last.v) = Keys(w)
                   /\ \A k \in Keys(w) : LastOf(last.v, k) = LastOf(w, k)

\* a map of two entries came back into a destination that held another entry
C4_Witness ==
    /\ MirrorRead /\ last.t.k = "map" /\ last.mem = "dirty"
    /\ Len(last.v) = 2
    /\ last.v = sent[last.idx].v

(***************************************************************************)
(* C5: a mapping on the wire in which a key occurs more than once is read  *)
(* into a map with exactly one entry for that key, holding the value of    *)
(* the key's last occurrence on the wire.                                  *)
(***************************************************************************)
C5_DuplicateKeyLastWins ==
    (/\ last.op = "read" /\ last.t.k = "map" /\ last.out = "ok" /\ ~last.sfail
     /\ last.from = 0 /\ Len(sent) >= 1
     /\ sent[1].t.k = "vec" /\ sent[1].t.e = PairT(last.t.a, last.t.b)) =>
        LET w == sent[1].v
        IN  /\ Keys(last.v) = Keys(w)
            /\ \A k \in Keys(w) :
                   /\ Cardinality(Entries(last.v, k)) = 1
                   /\ LastOf(last.v, k) = LastOf(w, k)

\* (KeyA, ValX) then (KeyA, ValY) on the wire were read as KeyA -> ValY
C5_Witness ==
    /\ last.op = "read" /\ last.t.k = "map" /\ last.out = "ok"
    /\ Len(sent) = 1 /\ sent[1].t.k = "vec"
    /\ sent[1].v = << <<KeyA, ValX>>, <<KeyA, ValY>> >>
    /\ last.v = << <<KeyA, ValY>> >>

(***************************************************************************)
(* C6: a read of a string, vector or map whose length field claims more    *)
(* than the stream still holds fails with a corrupt-data error, without    *)
(* sizing the destination to the claimed length and without reading past   *)
(* the end of the data.                                                    *)
(***************************************************************************)
C6_MalformedLengthRejected ==
    (last.op = "read" /\ last.lenok /\ last.claimed > last.remain) =>
        /\ last.out = "corrupt"
        /\ Len(last.v) # last.claimed
        /\ ~last.sfail

(***************************************************************************)
(* C7: an operation during which a call of the stream failed does not      *)
(* return as if it had succeeded.                                          *)
(***************************************************************************)
C7_StreamFaultPropagates == last.sfail => last.out # "ok"

(***************************************************************************)
(* C8: swapBytes applied twice gives the value back; applied once it       *)
(* reverses the bytes of the value, and leaves a 1-byte value unchanged.   *)
(***************************************************************************)
C8_SwapInvolution ==
    (GoodWrite /\ last.t.k = "int") =>
        LET x == last.arg
        IN  /\ swapBytes(swapBytes(x)) = x
            /\ swapBytes(x) = Reverse(x)
            /\ Len(x) = 1 => swapBytes(x) = x
            /\ wtag # host => Segment = Reverse(x) /\ swapBytes(Segment) = x

\* 0x123456789ABCDEF0 went through the swap on its way to the wire
C8_Witness ==
    /\ GoodWrite /\ last.t.k = "int" /\ last.t.w = 8 /\ wtag # host
    /\ Image(last.arg) = <<18, 52, 86, 120, 154, 188, 222, 240>>
    /\ Segment = Reverse(last.arg)

(***************************************************************************)
(* C9: a string, vector or map of length n is written as n, a size_t in    *)
(* the byte order of the tag, followed by the n element encodings (the n   *)
(* raw bytes of a string) and nothing else; a string of n bytes takes      *)
(* sizeof(size_t) + n bytes.                                               *)
(***************************************************************************)
C9_LengthPrefixedWireForm ==
    (GoodWrite /\ last.t.k \in {"str", "vec", "map"}) =>
        LET n == Len(last.arg)
        IN  /\ SubSeq(Segment, 1, SizeW) = LenWire(n, wtag)
            /\ Segment = WireOf(last.t, last.arg, wtag)
            /\ last.t.k = "str" =>
                   /\ Len(Segment) = SizeW + n
                   /\ SubSeq(Segment, SizeW + 1, SizeW + n) = last.arg

\* a string with an embedded null byte was written by a swapping serializer
C9_Witness ==
    /\ GoodWrite /\ last.t.k = "str" /\ wtag # host
    /\ last.arg = <<97, 0, 98>>
    /\ Len(Segment) = SizeW + 3

(***************************************************************************)
(* C10: reads that mirror the writes in type, order and tag each consume   *)
(* exactly the bytes their write produced and recover its value, and the   *)
(* stream is used up after the last of them.                               *)
(***************************************************************************)
C10_ExactConsumption ==
    MirrorRead =>
        /\ last.out = "ok"
        /\ last.v = sent[last.idx].v
        /\ last.from = sent[last.idx].from
        /\ last.to = sent[last.idx].to
        /\ last.idx = Len(sent) => ss.pos = Len(ss.buf)

====
